---- MODULE Spec2Model ----
(***************************************************************************)
(* LanceDB Inspector (src/lancedb_inspector.py): a Streamlit script.       *)
(*                                                                         *)
(* Text is modelled as sequences of one-character strings, so that suffix  *)
(* matching, str.replace and substring search are computed character by    *)
(* character.  A path below the database directory is the sequence of its  *)
(* components; the database directory itself is the empty path.            *)
(*                                                                         *)
(* Three specifications:                                                   *)
(*   Spec       the script as Streamlit runs it: every rerun executes the  *)
(*              module body top to bottom in a fresh namespace;            *)
(*   SpecRerun  the same reruns, with the names bound by the def           *)
(*              statements (lines 47-153) already in the namespace when    *)
(*              the branch of lines 41-44 runs;                            *)
(*   SpecFn     the functions of lines 47-153 called one at a time on      *)
(*              arguments and widget values drawn from bounded sets.       *)
(***************************************************************************)
EXTENDS Integers, Sequences, FiniteSets

VARIABLES host, op, phase, trigger, inp, run

vars == <<host, op, phase, trigger, inp, run>>

----------------------------------------------------------------------------
(* Bounds of the model. *)

\* number of entries of the directory tree below the database path
MaxEntries == 3
\* depth of the directory tree below the database path
MaxDepth == 2
\* rows of a sample DataFrame handed to the search handler
MaxRows == 2
\* rows of the sample DataFrame fetched inside connect_to_database
MaxRowsConn == 1
\* library calls of one run that raise when they are executed
MaxFaults == 1
\* pieces a selected file's base name is put together from
MaxParts == 2

\* table.limit(10): the size of the sample
SampleLimit == 10

----------------------------------------------------------------------------
(* Text. *)

Lance == <<".", "l", "a", "n", "c", "e">>

Min(a, b) == IF a < b THEN a ELSE b

\* str.endswith, which is what fnmatch's translation of "*.lance" tests
EndsWith(s, suf) ==
    /\ Len(s) >= Len(suf)
    /\ SubSeq(s, Len(s) - Len(suf) + 1, Len(s)) = suf

StartsWith(s, pre) ==
    /\ Len(s) >= Len(pre)
    /\ SubSeq(s, 1, Len(pre)) = pre

\* str.replace(old, ''): one pass from the left over non-overlapping matches
RECURSIVE str_replace(_, _)
str_replace(s, old) ==
    IF Len(s) < Len(old) THEN s
    ELSE IF StartsWith(s, old)
         THEN str_replace(SubSeq(s, Len(old) + 1, Len(s)), old)
         ELSE <<s[1]>> \o str_replace(Tail(s), old)

\* os.path.basename of a path given by its components
basename(path) == IF path = <<>> THEN <<>> ELSE path[Len(path)]

\* line 57 and line 121: os.path.basename(x).replace('.lance', '')
table_name(file) == str_replace(basename(file), Lance)

----------------------------------------------------------------------------
(* The directory tree below the database path. *)

FileNames ==
    { <<"a">> \o Lance,
      <<".", "h">> \o Lance,
      <<"n", ".", "t", "x", "t">> }

DirNames ==
    { <<"d">>,
      <<".", "g">>,
      <<"t">> \o Lance }

\* an entry: its path below the database directory and whether it is a directory
Entry(path, isdir) == [path |-> path, dir |-> isdir]

Parent(path) == SubSeq(path, 1, Len(path) - 1)

\* the entries that may be added to tree t: not there yet, inside a directory of t
Extensions(t) ==
    { e \in { Entry(Append(p, n), FALSE) :
                  p \in {<<>>} \cup { d.path : d \in {x \in t : x.dir} },
                  n \in FileNames }
            \cup
            { Entry(Append(p, n), TRUE) :
                  p \in {<<>>} \cup { d.path : d \in {x \in t : x.dir} },
                  n \in DirNames } :
        /\ Len(e.path) <= MaxDepth
        /\ \A x \in t : x.path # e.path }

RECURSIVE TreesUpTo(_)
TreesUpTo(k) ==
    IF k = 0 THEN { {} }
    ELSE LET smaller == TreesUpTo(k - 1)
         IN  smaller \cup UNION { { t \cup {e} : e \in Extensions(t) } : t \in smaller }

Trees == TreesUpTo(MaxEntries)

----------------------------------------------------------------------------
(* glob.glob(os.path.join(db_path, "**", "*.lance"), recursive=True)       *)

\* glob._ishidden
ishidden(name) == name[1] = "."

\* glob._listdir: the names in directory dir; with dironly, the directories
listdir(fs, dir, dironly) ==
    { basename(e.path) :
        e \in { x \in fs : /\ Len(x.path) = Len(dir) + 1
                           /\ Parent(x.path) = dir
                           /\ (dironly => x.dir) } }

\* glob._rlistdir with dironly: the directories below dir, at any depth,
\* reached without entering one whose name starts with a dot
RECURSIVE rlistdir(_, _)
rlistdir(fs, dir) ==
    LET names == { x \in listdir(fs, dir, TRUE) : ~ishidden(x) }
    IN  { Append(dir, x) : x \in names }
        \cup UNION { rlistdir(fs, Append(dir, x)) : x \in names }

\* glob._glob2 on "**": the directory itself and everything _rlistdir yields
glob2(fs) == {<<>>} \cup rlistdir(fs, <<>>)

\* fnmatch.filter(names, "*.lance")
fnmatch_lance(name) == EndsWith(name, Lance)

\* glob1 with include_hidden=True: a variant that C3 must tell from glob1
glob1_include_hidden(fs, dir) ==
    { x \in listdir(fs, dir, FALSE) : fnmatch_lance(x) }

\* glob._glob1 on "*.lance": hidden names are dropped, the others are matched
glob1(fs, dir) ==
    { x \in listdir(fs, dir, FALSE) : ~ishidden(x) /\ fnmatch_lance(x) }

\* lines 47-49.  The list's order is that of the traversal and is not modelled.
discover_lance_files(fs) ==
    UNION { { Append(d, x) : x \in glob1(fs, d) } : d \in glob2(fs) }

----------------------------------------------------------------------------
(* The inputs of one run: the widget values Streamlit hands to the script, *)
(* the state of the filesystem, and what the libraries do when called.     *)

\* os.path.exists(db_path), line 41: a directory or a file exists; a missing
\* path and the empty string do not
PathKinds == {"dir", "file", "missing", "empty"}

path_exists(kind) == kind \in {"dir", "file"}

\* what glob sees below db_path: a file has nothing below it
tree_at(i) == IF i.pathKind = "dir" THEN i.fs ELSE {}

\* the steps of a run that call into lancedb and may raise
Steps == {"import", "connect", "open_table", "count_rows", "schema", "limit", "query"}

FaultSets == { F \in SUBSET Steps : Cardinality(F) <= MaxFaults }

\* what a failing library call raises: an ImportError (line 132) or any other
\* Exception (line 135)
FaultKinds == {"Exception", "ImportError"}

\* line 106: the default text of the query box, and another text
DefaultQuery == "SELECT * FROM table LIMIT 100"

Queries == {DefaultQuery, "SELECT nope FROM t"}

\* a cell that holds None
NoneVal == <<"None">>

\* a derived text that has not been computed
NoText == <<"NoText">>

\* the rows of a sample: two columns
RowPool ==
    { << <<"A", "B", "C", "x">>, NoneVal >>,
      << <<"x", "y", "z">>, <<"A", "B", "C", "x">> >>,
      << NoneVal, <<"x", "y", "z">> >>,
      << <<"x", "y", "z">>, <<"x", "y", "z">> >> }

Columns == {1, 2}

\* table.limit(10).to_pandas(), line 86: at most SampleLimit rows
DFsUpTo(n) == UNION { [1..k -> RowPool] : k \in 0..Min(n, SampleLimit) }

\* line 95: what the user may have typed into "Search term"
Terms ==
    { <<>>,
      <<"a", "b", "c">>,
      <<"b", "c">>,
      <<"z">>,
      <<"n">>,
      <<"a", ".", "c">>,
      <<"[">> }

DefaultInp ==
    [ pathKind |-> "dir", fs |-> {}, sel |-> <<>>,
      btnConnect |-> FALSE, btnExec |-> FALSE,
      term |-> <<>>, col |-> 1, query |-> DefaultQuery,
      df |-> <<>>, faults |-> {}, faultKind |-> "Exception", naStr |-> TRUE ]

----------------------------------------------------------------------------
(* What one run has done so far: the elements rendered, in order; the      *)
(* library calls made, in order; the exception in flight ("none" when      *)
(* there is none); and the values the elements show.                       *)

EmptyRun ==
    [ display |-> <<>>, calls |-> <<>>, exc |-> "none",
      files |-> {}, name |-> NoText, filtered |-> <<>>, submitted |-> "" ]

Emit(r, tag) == [r EXCEPT !.display = Append(@, tag)]

Called(r, c) == [r EXCEPT !.calls = Append(@, c)]

Raise(r, e) == [r EXCEPT !.exc = e]

InSeq(x, s) == \E k \in 1..Len(s) : s[k] = x

\* a library call: recorded, and raising when the environment makes it fail
LibCall(r, i, step) ==
    IF step \in i.faults THEN Raise(Called(r, step), i.faultKind)
    ELSE Called(r, step)

----------------------------------------------------------------------------
(* pandas: df[df[col].astype(str).str.contains(term, case=False, na=False)] *)

Lower(c) ==
    CASE c = "A" -> "a"
      [] c = "B" -> "b"
      [] c = "C" -> "c"
      [] c = "N" -> "n"
      [] OTHER -> c

\* Series.astype(str): str(None) is 'None' on the object dtype; where
\* naStr is FALSE the string dtype keeps the missing value missing
astype_str(v, naStr) ==
    IF v = NoneVal /\ naStr THEN <<"N", "o", "n", "e">> ELSE v

\* re.compile(term): over the letters, "." and "[" an opening bracket is never
\* closed, which is re.error (unterminated character set)
regex_compiles(term) == \A k \in 1..Len(term) : term[k] # "["

\* re.search with re.IGNORECASE: "." matches any character
regex_search(term, v) ==
    \E s \in 0..(Len(v) - Len(term)) :
        \A k \in 1..Len(term) :
            term[k] = "." \/ Lower(term[k]) = Lower(v[s + k])

\* str.contains(term, case=False, na=False): regex=True is the default
str_contains(v, term) ==
    IF v = NoneVal THEN FALSE ELSE regex_search(term, v)

RECURSIVE SelectRows(_, _, _, _)
SelectRows(df, col, term, naStr) ==
    IF df = <<>> THEN <<>>
    ELSE LET rest == SelectRows(Tail(df), col, term, naStr)
         IN  IF str_contains(astype_str(df[1][col], naStr), term)
             THEN <<df[1]>> \o rest
             ELSE rest

----------------------------------------------------------------------------
(* The functions of lines 47-153.  Each takes the run so far and the       *)
(* inputs and gives the run after it; a run with an exception in flight    *)
(* passes through the statements that follow the raise unchanged.          *)

\* lines 52-58: the selectbox returns the selected option
create_table_selector(r, i) ==
    IF r.exc # "none" THEN r ELSE Emit(r, "sb.selectbox")

\* lines 61-70
display_table_metrics(r, i) ==
    IF r.exc # "none" THEN r
    ELSE LET counted == LibCall(r, i, "count_rows")
         IN  IF counted.exc # "none" THEN counted
             ELSE Emit(Emit(Emit(counted, "metric.count"), "metric.name"), "metric.path")

\* display_schema_info with a try/except of its own around table.schema(): a
\* variant that C4 must tell from display_schema_info
display_schema_info_own_except(r, i) ==
    IF r.exc # "none" THEN r
    ELSE LET read == LibCall(Emit(r, "header.schema"), i, "schema")
         IN  IF read.exc # "none" THEN Emit(Raise(read, "none"), "error.connection")
             ELSE Emit(read, "df.schema")

\* lines 73-80
display_schema_info(r, i) ==
    IF r.exc # "none" THEN r
    ELSE LET read == LibCall(Emit(r, "header.schema"), i, "schema")
         IN  IF read.exc # "none" THEN read ELSE Emit(read, "df.schema")

\* lines 83-88
display_sample_records(r, i) ==
    IF r.exc # "none" THEN r
    ELSE LET read == LibCall(Emit(r, "header.sample"), i, "limit")
         IN  IF read.exc # "none" THEN read ELSE Emit(read, "df.sample")

\* handle_search_ui without the test of line 97: a variant that C9 must tell
\* from handle_search_ui
handle_search_ui_no_term_test(r, i) ==
    IF r.exc # "none" THEN r
    ELSE LET ui == Emit(Emit(Emit(r, "header.search"), "selectbox.col"), "text_input.term")
         IN  IF ~regex_compiles(i.term) THEN Raise(ui, "Exception")
             ELSE Emit(Emit([ui EXCEPT !.filtered =
                                 SelectRows(i.df, i.col, i.term, i.naStr)],
                            "write.found"), "df.filtered")

\* lines 91-100
handle_search_ui(r, i) ==
    IF r.exc # "none" THEN r
    ELSE LET ui == Emit(Emit(Emit(r, "header.search"), "selectbox.col"), "text_input.term")
         IN  IF i.term = <<>> THEN ui
             ELSE IF ~regex_compiles(i.term) THEN Raise(ui, "Exception")
             ELSE Emit(Emit([ui EXCEPT !.filtered =
                                 SelectRows(i.df, i.col, i.term, i.naStr)],
                            "write.found"), "df.filtered")

\* handle_raw_query without the try of lines 108-112: a variant that C6 must
\* tell from handle_raw_query
handle_raw_query_no_try(r, i) ==
    IF r.exc # "none" THEN r
    ELSE LET ui == Emit(Emit(Emit(r, "header.query"), "text_area.query"), "button.exec")
         IN  IF ~i.btnExec THEN ui
             ELSE LET sent == LibCall([ui EXCEPT !.submitted = i.query], i, "query")
                  IN  IF sent.exc # "none" THEN sent ELSE Emit(sent, "df.result")

\* lines 103-112
handle_raw_query(r, i) ==
    IF r.exc # "none" THEN r
    ELSE LET ui == Emit(Emit(Emit(r, "header.query"), "text_area.query"), "button.exec")
         IN  IF ~i.btnExec THEN ui
             ELSE LET sent == LibCall([ui EXCEPT !.submitted = i.query], i, "query")
                  IN  IF sent.exc # "none"
                      THEN Emit(Raise(sent, "none"), "error.query")
                      ELSE Emit(sent, "df.result")

\* lines 118-130: the body of the try
connect_body(r, i) ==
    LET imported  == LibCall(r, i, "import")
        connected == IF imported.exc # "none" THEN imported
                     ELSE LibCall(imported, i, "connect")
        named     == IF connected.exc # "none" THEN connected
                     ELSE Emit([connected EXCEPT !.name = table_name(i.sel)],
                               "success.connected")
        opened    == IF named.exc # "none" THEN named
                     ELSE LibCall(named, i, "open_table")
    IN  handle_raw_query(
          handle_search_ui(
            display_sample_records(
              display_schema_info(
                display_table_metrics(opened, i), i), i), i), i)

\* lines 115-136
connect_to_database(r, i) ==
    IF r.exc # "none" THEN r
    ELSE LET body == connect_body(r, i)
         IN  CASE body.exc = "ImportError" ->
                    Emit(Emit(Raise(body, "none"), "error.missing_deps"), "info.install")
               [] body.exc = "Exception" ->
                    Emit(Raise(body, "none"), "error.connection")
               [] OTHER -> body

\* lines 139-147
handle_db_exists(r, i) ==
    IF r.exc # "none" THEN r
    ELSE LET files == discover_lance_files(tree_at(i))
             found == Emit([Called(r, "glob") EXCEPT !.files = files], "sb.success.found")
         IN  IF files = {} THEN found
             ELSE LET chosen == Emit(create_table_selector(found, i), "sb.button.connect")
                  IN  IF i.btnConnect THEN connect_to_database(chosen, i) ELSE chosen

\* lines 150-153
handle_db_missing(r, i) ==
    IF r.exc # "none" THEN r
    ELSE Emit(Emit(r, "sb.error.notfound"), "sb.info.guidance")

----------------------------------------------------------------------------
(* The module body, lines 13-174, as one run of the script.                *)

\* the names bound when line 41 is reached: the imports of lines 13-17 and
\* the assignments of lines 32-34
NamesAtBranch == {"st", "pd", "os", "glob", "Path", "home_dir", "default_path", "db_path"}

\* the names the def statements of lines 47-153 bind
FunctionNames ==
    { "discover_lance_files", "create_table_selector", "display_table_metrics",
      "display_schema_info", "display_sample_records", "handle_search_ui",
      "handle_raw_query", "connect_to_database", "handle_db_exists",
      "handle_db_missing" }

\* the namespace a run starts line 41 with: Streamlit executes the script in a
\* new module each time
namespace(h) ==
    IF h = "streamlit" THEN NamesAtBranch ELSE NamesAtBranch \cup FunctionNames

\* lines 20-38
page_head(r) ==
    Emit(Emit(Emit(r, "title"), "sb.header.connection"), "sb.text_input.path")

\* lines 40-44: the name of the function is looked up when the call is made
path_branch(r, i, names) ==
    LET checked == Called(r, "exists")
        callee  == IF path_exists(i.pathKind) THEN "handle_db_exists"
                   ELSE "handle_db_missing"
    IN  IF callee \notin names THEN Raise(checked, "NameError")
        ELSE IF callee = "handle_db_exists" THEN handle_db_exists(checked, i)
        ELSE handle_db_missing(checked, i)

\* lines 155-174
page_tail(r) ==
    IF r.exc # "none" THEN r
    ELSE Emit(Emit(Emit(Emit(r, "sb.header.instructions"), "sb.markdown.instructions"),
                   "markdown.rule"), "markdown.footer")

\* an exception that leaves the module body ends the run: Streamlit shows it
\* in place of the rest of the page
script_end(r) == IF r.exc # "none" THEN Emit(r, "exception") ELSE r

script(i, names) == script_end(page_tail(path_branch(page_head(EmptyRun), i, names)))

----------------------------------------------------------------------------
(* Reruns.  A run is pending after the page is loaded and after every      *)
(* interaction; Rerun executes the script; Interact is the user touching   *)
(* one widget of the page the last run rendered.                           *)

Widgets ==
    { "sb.text_input.path", "sb.selectbox", "sb.button.connect",
      "selectbox.col", "text_input.term", "text_area.query", "button.exec" }

Rendered(r) == { w \in Widgets : InSeq(w, r.display) }

\* the widget values the next run starts from: a widget the last run rendered
\* keeps its value, one it did not render is back at its default, and no
\* button is pressed
carried(i, r) ==
    LET on == Rendered(r)
    IN  [ DefaultInp EXCEPT
            !.pathKind = i.pathKind,
            !.fs = i.fs,
            !.sel = IF "sb.selectbox" \in on THEN i.sel ELSE <<>>,
            !.col = IF "selectbox.col" \in on THEN i.col ELSE 1,
            !.term = IF "text_input.term" \in on THEN i.term ELSE <<>>,
            !.query = IF "text_area.query" \in on THEN i.query ELSE DefaultQuery ]

\* the inputs of the run that touching widget w causes
touched(b, w, r) ==
    CASE w = "sb.text_input.path" ->
            { [b EXCEPT !.pathKind = k] : k \in PathKinds \ {b.pathKind} }
      [] w = "sb.selectbox" ->
            { [b EXCEPT !.sel = f] : f \in r.files \ {b.sel} }
      [] w = "sb.button.connect" ->
            { [b EXCEPT !.btnConnect = TRUE] }
      [] w = "selectbox.col" ->
            { [b EXCEPT !.col = c] : c \in Columns \ {b.col} }
      [] w = "text_input.term" ->
            { [b EXCEPT !.term = t] : t \in Terms \ {b.term} }
      [] w = "text_area.query" ->
            { [b EXCEPT !.query = q] : q \in Queries \ {b.query} }
      [] OTHER ->
            { [b EXCEPT !.btnExec = TRUE] }

Interact ==
    /\ op = "script"
    /\ phase = "shown"
    /\ \E w \in Rendered(run) :
         \E next \in touched(carried(inp, run), w, run) :
            /\ inp' = next
            /\ trigger' = w
    /\ phase' = "pending"
    /\ run' = EmptyRun
    /\ UNCHANGED <<host, op>>

\* the option the selectbox returns: the user's, while it is still offered,
\* and otherwise the first of the list, whose order glob leaves open
selections(i) ==
    LET files == discover_lance_files(tree_at(i))
    IN  IF files = {} THEN { <<>> }
        ELSE IF i.sel \in files THEN { i.sel }
        ELSE files

\* what the libraries do in a run that presses Connect
environments(i) ==
    IF i.btnConnect
    THEN { [i EXCEPT !.faults = F, !.faultKind = k, !.df = d, !.naStr = n] :
             F \in FaultSets, k \in FaultKinds,
             d \in DFsUpTo(MaxRowsConn), n \in BOOLEAN }
    ELSE { i }

Rerun ==
    /\ op = "script"
    /\ phase = "pending"
    /\ \E s \in selections(inp) :
         \E e \in environments([inp EXCEPT !.sel = s]) :
            /\ inp' = e
            /\ run' = script(e, namespace(host))
    /\ phase' = "shown"
    /\ UNCHANGED <<host, op, trigger>>

InitRerun(h) ==
    /\ host = h
    /\ op = "script"
    /\ phase = "pending"
    /\ trigger = "load"
    /\ inp \in { [DefaultInp EXCEPT !.pathKind = k, !.fs = t] :
                   k \in PathKinds, t \in Trees }
    /\ run = EmptyRun

Init == InitRerun("streamlit")

InitBound == InitRerun("bound")

Next == Rerun \/ Interact

Spec == Init /\ [][Next]_vars

SpecRerun == InitBound /\ [][Next]_vars

----------------------------------------------------------------------------
(* The functions called one at a time.                                     *)

\* the pieces of the base names offered to the selector
Pieces ==
    { <<"a">>, <<".", "b">>, Lance, <<".", "l", "a", "n", "c">>, <<"e">> }

RECURSIVE Joined(_)
Joined(k) ==
    IF k = 0 THEN { <<>> }
    ELSE LET shorter == Joined(k - 1)
         IN  shorter \cup { s \o q : s \in shorter, q \in Pieces }

\* the files a selection is made from: what the glob of line 49 can return,
\* a name that ends in ".lance" and does not start with a dot
SelectedFiles ==
    { << stem \o Lance >> : stem \in { s \in Joined(MaxParts) : s # <<>> /\ s[1] # "." } }

\* the files connect_to_database is called on
ConnFiles == { << <<"a">> \o Lance >>, << <<"d">>, <<"t">> \o Lance >> }

Call_discover_lance_files ==
    /\ host = "call"
    /\ phase = "idle"
    /\ \E t \in Trees, k \in {"dir", "file"} :
         LET i == [DefaultInp EXCEPT !.fs = t, !.pathKind = k]
         IN  /\ inp' = i
             /\ run' = [EmptyRun EXCEPT !.files = discover_lance_files(tree_at(i))]
    /\ op' = "discover_lance_files"
    /\ phase' = "returned"
    /\ UNCHANGED <<host, trigger>>

\* the selector shows format_func of the option it returns (line 57)
Call_create_table_selector ==
    /\ host = "call"
    /\ phase = "idle"
    /\ \E f \in SelectedFiles :
         LET i == [DefaultInp EXCEPT !.sel = f]
         IN  /\ inp' = i
             /\ run' = [create_table_selector(EmptyRun, i) EXCEPT !.name = table_name(f)]
    /\ op' = "create_table_selector"
    /\ phase' = "returned"
    /\ UNCHANGED <<host, trigger>>

Call_handle_search_ui ==
    /\ host = "call"
    /\ phase = "idle"
    /\ \E d \in DFsUpTo(MaxRows), c \in Columns, t \in Terms, n \in BOOLEAN :
         LET i == [DefaultInp EXCEPT !.df = d, !.col = c, !.term = t, !.naStr = n]
         IN  /\ inp' = i
             /\ run' = handle_search_ui(EmptyRun, i)
    /\ op' = "handle_search_ui"
    /\ phase' = "returned"
    /\ UNCHANGED <<host, trigger>>

Call_handle_raw_query ==
    /\ host = "call"
    /\ phase = "idle"
    /\ \E q \in Queries, b \in BOOLEAN, F \in FaultSets, k \in FaultKinds :
         LET i == [DefaultInp EXCEPT !.query = q, !.btnExec = b,
                                     !.faults = F, !.faultKind = k]
         IN  /\ inp' = i
             /\ run' = handle_raw_query(EmptyRun, i)
    /\ op' = "handle_raw_query"
    /\ phase' = "returned"
    /\ UNCHANGED <<host, trigger>>

Call_connect_to_database ==
    /\ host = "call"
    /\ phase = "idle"
    /\ \E f \in ConnFiles, F \in FaultSets, k \in FaultKinds,
          d \in DFsUpTo(MaxRowsConn), c \in Columns, t \in Terms,
          n \in BOOLEAN, b \in BOOLEAN, q \in Queries :
         LET i == [DefaultInp EXCEPT !.sel = f, !.btnConnect = TRUE,
                                     !.faults = F, !.faultKind = k,
                                     !.df = d, !.col = c, !.term = t,
                                     !.naStr = n, !.btnExec = b, !.query = q]
         IN  /\ inp' = i
             /\ run' = connect_to_database(EmptyRun, i)
    /\ op' = "connect_to_database"
    /\ phase' = "returned"
    /\ UNCHANGED <<host, trigger>>

Call_handle_db_exists ==
    /\ host = "call"
    /\ phase = "idle"
    /\ \E t \in Trees, k \in {"dir", "file"}, b \in BOOLEAN :
         \E s \in selections([DefaultInp EXCEPT !.fs = t, !.pathKind = k]) :
            LET i == [DefaultInp EXCEPT !.fs = t, !.pathKind = k,
                                        !.sel = s, !.btnConnect = b]
            IN  /\ inp' = i
                /\ run' = handle_db_exists(EmptyRun, i)
    /\ op' = "handle_db_exists"
    /\ phase' = "returned"
    /\ UNCHANGED <<host, trigger>>

Call_handle_db_missing ==
    /\ host = "call"
    /\ phase = "idle"
    /\ \E k \in {"missing", "empty"} :
         LET i == [DefaultInp EXCEPT !.pathKind = k]
         IN  /\ inp' = i
             /\ run' = handle_db_missing(EmptyRun, i)
    /\ op' = "handle_db_missing"
    /\ phase' = "returned"
    /\ UNCHANGED <<host, trigger>>

\* the call returns; the next call starts from nothing
Return ==
    /\ host = "call"
    /\ phase = "returned"
    /\ op' = "none"
    /\ phase' = "idle"
    /\ inp' = DefaultInp
    /\ run' = EmptyRun
    /\ UNCHANGED <<host, trigger>>

InitFn ==
    /\ host = "call"
    /\ op = "none"
    /\ phase = "idle"
    /\ trigger = "call"
    /\ inp = DefaultInp
    /\ run = EmptyRun

NextFn ==
    \/ Call_discover_lance_files
    \/ Call_create_table_selector
    \/ Call_handle_search_ui
    \/ Call_handle_raw_query
    \/ Call_connect_to_database
    \/ Call_handle_db_exists
    \/ Call_handle_db_missing
    \/ Return

SpecFn == InitFn /\ [][NextFn]_vars

----------------------------------------------------------------------------
(* Properties.                                                             *)

Pos(x, s) == CHOOSE k \in 1..Len(s) : s[k] = x /\ \A j \in 1..(k - 1) : s[j] # x

ErrorTags == {"error.connection", "error.missing_deps", "error.query"}

NumErrors(d) == Cardinality({ k \in 1..Len(d) : d[k] \in ErrorTags })

\* what the steps of lines 122-128 render
ChainOutputs ==
    { "success.connected", "metric.count", "metric.name", "metric.path",
      "header.schema", "df.schema", "header.sample", "df.sample" }

\* the current operation run again on other inputs
Replay(i) ==
    CASE op = "connect_to_database" -> connect_to_database(EmptyRun, i)
      [] op = "handle_raw_query" -> handle_raw_query(EmptyRun, i)
      [] op = "handle_search_ui" -> handle_search_ui(EmptyRun, i)
      [] op = "handle_db_exists" -> handle_db_exists(EmptyRun, i)
      [] op = "script" -> script(i, namespace(host))
      [] OTHER -> run

\* a run is over and its page is displayed
Finished == phase \in {"shown", "returned"}

\* the rows whose value in column col is present and contains term as a literal
\* substring, case ignored
literal_contains(v, term) ==
    \E s \in 0..(Len(v) - Len(term)) :
        \A k \in 1..Len(term) : Lower(term[k]) = Lower(v[s + k])

LiteralRows(df, col, term) ==
    SelectSeq(df, LAMBDA row : row[col] # NoneVal /\ literal_contains(row[col], term))

\* C1: every rerun of the script runs to the end of the script body, through
\* the Instructions and footer sections, without an uncaught error
C1_RerunReachesFooter ==
    (op = "script" /\ phase = "shown") =>
        /\ run.exc = "none"
        /\ ~InSeq("exception", run.display)
        /\ InSeq("sb.markdown.instructions", run.display)
        /\ InSeq("markdown.footer", run.display)

\* C2: in a rerun whose database path does not exist, the not-found message and
\* the guidance text are rendered and neither discovery nor any connection step
\* is reached
C2_MissingPathShowsNotFound ==
    (op = "script" /\ phase = "shown" /\ ~path_exists(inp.pathKind)) =>
        /\ InSeq("sb.error.notfound", run.display)
        /\ InSeq("sb.info.guidance", run.display)
        /\ ~InSeq("glob", run.calls)
        /\ ~InSeq("connect", run.calls)
        /\ ~InSeq("open_table", run.calls)

\* C3 as stated: for an existing directory, discover_lance_files returns exactly
\* the paths of the files, at any depth beneath it, whose name ends in ".lance"
C3_ExactlyTheLanceFiles ==
    (op = "discover_lance_files" /\ phase = "returned" /\ inp.pathKind = "dir") =>
        run.files = { e.path : e \in { x \in inp.fs :
                          ~x.dir /\ EndsWith(basename(x.path), Lance) } }

\* C3 as amended: for an existing directory, discover_lance_files returns exactly
\* the paths of the entries, files and directories alike, at any depth beneath
\* it, whose name ends in ".lance" and whose path below the directory has no
\* component that starts with a dot
C3_ExactlyTheVisibleLanceEntries ==
    (op = "discover_lance_files" /\ phase = "returned" /\ inp.pathKind = "dir") =>
        run.files = { e.path : e \in { x \in inp.fs :
                          /\ EndsWith(basename(x.path), Lance)
                          /\ \A k \in 1..Len(x.path) : x.path[k][1] # "." } }

\* C3, the case: a tree with a match below a subdirectory, a hidden match that
\* is left out and a directory that is returned
C3_Witness ==
    /\ op = "discover_lance_files"
    /\ phase = "returned"
    /\ inp.pathKind = "dir"
    /\ \E e \in inp.fs : EndsWith(basename(e.path), Lance) /\ e.path \notin run.files
    /\ \E e \in inp.fs : e.dir /\ e.path \in run.files
    /\ \E e \in inp.fs : ~e.dir /\ Len(e.path) > 1 /\ e.path \in run.files

\* C4: connect_to_database displays row count, then schema, then sample; when
\* a step of the chain (connect, open table, count, schema, sample) fails, no
\* later step runs, exactly one error message is displayed, the failure does
\* not leave connect_to_database, and what was rendered before stays
C4_ChainStopsAtFirstFailure ==
    (Finished /\ InSeq("import", run.calls)) =>
        LET d == run.display
            ok == Replay([inp EXCEPT !.faults = {}]).display
            e == CHOOSE k \in 1..Len(d) :
                     d[k] \in ErrorTags /\ \A j \in 1..(k - 1) : d[j] \notin ErrorTags
        IN  /\ InSeq("df.schema", d) =>
                  InSeq("metric.count", d) /\ Pos("metric.count", d) < Pos("df.schema", d)
            /\ InSeq("df.sample", d) =>
                  InSeq("df.schema", d) /\ Pos("df.schema", d) < Pos("df.sample", d)
            /\ (inp.faults \cap {"import", "connect", "open_table",
                                 "count_rows", "schema", "limit"} = {})
                  => InSeq("df.sample", d)
            /\ \A s \in {"connect", "open_table", "count_rows", "schema", "limit"} :
                  (s \in inp.faults /\ InSeq(s, run.calls)) =>
                      /\ run.calls[Len(run.calls)] = s
                      /\ NumErrors(d) = 1
                      /\ run.exc = "none"
                      /\ e - 1 <= Len(ok)
                      /\ SubSeq(d, 1, e - 1) = SubSeq(ok, 1, e - 1)
                      /\ \A k \in (e + 1)..Len(d) : d[k] \notin ChainOutputs

\* C4, the case: the schema step fails after the row count was displayed
C4_Witness ==
    /\ op = "connect_to_database"
    /\ phase = "returned"
    /\ "schema" \in inp.faults
    /\ InSeq("schema", run.calls)
    /\ InSeq("metric.count", run.display)
    /\ InSeq("error.connection", run.display)

\* C5: after a connection, a press of Execute Query leads to a rerun that
\* submits the query text verbatim to db.query, and a non-empty search term
\* leads to a rerun that shows the filtered output
C5_InteractionReachesItsHandler ==
    (op = "script" /\ phase = "shown") =>
        /\ trigger = "button.exec" =>
              InSeq("query", run.calls) /\ run.submitted = inp.query
        /\ (trigger = "text_input.term" /\ inp.term # <<>>) =>
              /\ InSeq("header.search", run.display)
              /\ regex_compiles(inp.term) => InSeq("df.filtered", run.display)

\* C6: a failure of the query execution displays "Query failed" and never
\* "Connection failed", does not end the run, and leaves what was rendered
\* before it displayed and unchanged
C6_QueryFailureIsInline ==
    (Finished /\ "query" \in inp.faults /\ InSeq("query", run.calls)) =>
        LET d == run.display
            ok == Replay([inp EXCEPT !.faults = @ \ {"query"}]).display
        IN  /\ InSeq("error.query", d)
            /\ ~InSeq("error.connection", d)
            /\ ~InSeq("error.missing_deps", d)
            /\ run.exc = "none"
            /\ NumErrors(d) = 1
            /\ [d EXCEPT ![Pos("error.query", d)] = "df.result"] = ok
            /\ op = "connect_to_database" =>
                  /\ Pos("metric.count", d) < Pos("error.query", d)
                  /\ Pos("df.schema", d) < Pos("error.query", d)
                  /\ Pos("df.sample", d) < Pos("error.query", d)

\* C6, the case: inside connect_to_database the query fails after the metrics,
\* the schema and the sample were rendered
C6_Witness ==
    /\ op = "connect_to_database"
    /\ phase = "returned"
    /\ "query" \in inp.faults
    /\ InSeq("error.query", run.display)
    /\ InSeq("df.sample", run.display)

\* C7: for a non-empty term the search handler displays exactly the rows whose
\* value in the chosen column is present and contains the term as a
\* case-insensitive literal substring, and it never raises
C7_LiteralNullSafeSearch ==
    (op = "handle_search_ui" /\ phase = "returned" /\ inp.term # <<>>) =>
        /\ run.exc = "none"
        /\ InSeq("write.found", run.display)
        /\ InSeq("df.filtered", run.display)
        /\ run.filtered = LiteralRows(inp.df, inp.col, inp.term)

\* C8: the table name is the file's base name with the one trailing ".lance"
\* removed: appending ".lance" to the name gives back the base name
C8_NameIsBaseNameWithoutSuffix ==
    (Finished /\ run.name # NoText) =>
        run.name \o Lance = basename(inp.sel)

\* C9: with an empty search term the search handler filters nothing and
\* displays neither the "Found X matching records" message nor a filtered table
C9_EmptyTermShowsNothing ==
    (Finished /\ inp.term = <<>>) =>
        /\ ~InSeq("write.found", run.display)
        /\ ~InSeq("df.filtered", run.display)
        /\ run.filtered = <<>>

\* C9, the case: the search handler has run on a sample with rows and an
\* empty term
C9_Witness ==
    /\ op = "handle_search_ui"
    /\ phase = "returned"
    /\ inp.term = <<>>
    /\ inp.df # <<>>
    /\ InSeq("text_input.term", run.display)

\* C10: the success message and "Connection failed" are never both displayed:
\* the success message is displayed only when the connection and the opening
\* of the table have both succeeded
C10_ConnectedOrFailed ==
    (Finished /\ InSeq("success.connected", run.display)) =>
        /\ ~InSeq("error.connection", run.display)
        /\ InSeq("open_table", run.calls)
        /\ "open_table" \notin inp.faults

====
